---- MODULE Spec2Model ----
(***************************************************************************)
(* Model of main.py: the Best Sellers scraper (scrape_amazon_category),    *)
(* category discovery (scrape_root_categories), the SQLite store           *)
(* (init_db, INSERT OR REPLACE), the lifespan startup sequence and the     *)
(* /api/scrape endpoint (trigger_scrape).                                  *)
(*                                                                         *)
(* An optional DOM element or attribute is a sequence of length at most    *)
(* one: <<>> when select_one()/get() returns None, <<t>> when it returns   *)
(* an element whose text (after get_text(strip=True) where the code        *)
(* strips) is t.  The rank badge text is a sequence of characters, because *)
(* the code edits and parses it.                                           *)
(***************************************************************************)
EXTENDS Integers, Sequences, FiniteSets, TLC

\* ------------------------------------------------------------ bounds
MaxEntries == 3      \* listing entries on a page
MaxLimit == 3        \* the limit argument of scrape_amazon_category
MaxTransient == 3    \* transient failures the server serves in a row
MaxLinks == 2        \* anchors the sidebar selector matches
MaxTime == 2         \* readings of datetime.now()
MaxApiEntries == 2   \* listing entries on a page an API request scrapes

\* ------------------------------------------------------------ values
None == "<None>"
NA == "N/A"
UnknownTitle == "Unknown Title"
BulletPlaceholder == "Features available on product detail page."
BaseUrl == "https://www.amazon.com"
DefaultLimit == 5

Min(a, b) == IF a <= b THEN a ELSE b
Max(a, b) == IF a >= b THEN a ELSE b

\* Python truthiness of an optional attribute value: None and "" are falsy.
Truthy(opt) == opt # <<>> /\ opt[1] # ""

\* ------------------------------------------------------------ rank parsing
Digits == {"0", "1", "2", "3", "4", "5", "6", "7", "8", "9"}

DigitVal(c) ==
  CASE c = "0" -> 0 [] c = "1" -> 1 [] c = "2" -> 2 [] c = "3" -> 3
    [] c = "4" -> 4 [] c = "5" -> 5 [] c = "6" -> 6 [] c = "7" -> 7
    [] c = "8" -> 8 [] c = "9" -> 9

\* str.replace('#', ''): every '#' is removed, wherever it stands.
ReplaceHash(s) == SelectSeq(s, LAMBDA c : c # "#")

\* int(s) raises ValueError unless s is a decimal literal (the badge texts
\* of the model carry no sign, blank or underscore).
IsIntLiteral(s) == Len(s) > 0 /\ \A i \in 1..Len(s) : s[i] \in Digits

RECURSIVE IntOf(_)
IntOf(s) ==
  IF s = <<>> THEN 0
  ELSE 10 * IntOf(SubSeq(s, 1, Len(s) - 1)) + DigitVal(s[Len(s)])

\* ------------------------------------------------------------ one entry
\* The module imports os, sqlite3, logging, asyncio, datetime, typing,
\* contextlib, fastapi, pydantic, apscheduler, requests, bs4 and
\* fake_useragent: the name json is not bound.
JsonImported == FALSE

Skip == [skipped |-> TRUE]

\* if item_json: the attribute, when the entry carries it, holds the JSON
\* text of an object with the key asin, which is truthy.
HasMeta(item) == item.item_json # <<>>

\* Whether the body of the per-entry try block raises; the except clause
\* then logs and continues with the next entry.
ItemRaises(item) ==
  \/ HasMeta(item) /\ ~JsonImported                         \* NameError
  \/ item.rank_el # <<>> /\ ~IsIntLiteral(ReplaceHash(item.rank_el[1]))

TextOr(el, default) == IF el # <<>> THEN el[1] ELSE default

RankOf(item) ==
  IF item.rank_el # <<>> THEN IntOf(ReplaceHash(item.rank_el[1])) ELSE 0

AsinOf(item) ==
  IF HasMeta(item) THEN item.item_json[1].asin ELSE NA

ProductData(item, url, now) ==
  [ asin |-> AsinOf(item),
    title |-> TextOr(item.title_el, UnknownTitle),
    rank |-> RankOf(item),
    price |-> TextOr(item.price_el, None),
    list_price |-> None,
    discount_percent |-> None,
    rating |-> TextOr(item.rating_el, NA),
    reviews_count |-> TextOr(item.reviews_el, "0"),
    is_prime |-> TRUE,
    bsr_str |-> "#" \o ToString(RankOf(item)) \o " in Category",
    bullet_points |-> BulletPlaceholder,
    image_url |-> TextOr(item.img_el, ""),
    category_url |-> url,
    updated_at |-> now ]

ParseItem(item, url, now) ==
  IF ItemRaises(item) THEN Skip ELSE ProductData(item, url, now)

\* items[:limit]
TruncateAll(items, limit) == items

Truncate(items, limit) ==
  IF limit >= 0 THEN SubSeq(items, 1, Min(limit, Len(items)))
  ELSE SubSeq(items, 1, Max(0, Len(items) + limit))

RECURSIVE ParseItems(_, _, _)
ParseItems(items, url, now) ==
  IF items = <<>> THEN <<>>
  ELSE LET r == ParseItem(Head(items), url, now)
           rest == ParseItems(Tail(items), url, now)
       IN IF r = Skip THEN rest ELSE <<r>> \o rest

\* A response of requests.get: NetError when the call raises, else a status
\* code and a body.  The body holds the listing entries the container
\* selector matches; a challenge page holds none.
NetError == [raises |-> TRUE]

Resp(status, items, challenge) ==
  [raises |-> FALSE, status |-> status, items |-> items, challenge |-> challenge]

ScrapeCategory(resp, url, limit, now) ==
  IF resp.raises THEN <<>>
  ELSE IF resp.status # 200 THEN <<>>
  ELSE ParseItems(Truncate(resp.items, limit), url, now)

\* ------------------------------------------------------------ the store
\* INSERT OR REPLACE INTO products ...: asin is the PRIMARY KEY, so the row
\* that holds the new row's asin, if any, is deleted before the insert.
InsertProduct(table, row) == table \cup {row}

UpsertProduct(table, row) == {r \in table : r.asin # row.asin} \cup {row}

\* INSERT OR REPLACE INTO categories ...: url is the PRIMARY KEY.
UpsertCategory(table, row) == {r \in table : r.url # row.url} \cup {row}

EmptyDb == [products |-> {}, categories |-> {}]

\* SQLite's write lock: one connection at a time holds a write transaction;
\* the execute() of any other connection waits (the busy handler of
\* sqlite3.connect) until the holder commits or rolls back.
LockFree(holder, who) == TRUE

CanWrite(holder, who) == holder \in {"none", who}

\* The database a connection sees: its own uncommitted transaction when it
\* holds the write lock, the committed database otherwise.
View(holder, who, committed, tx) == IF holder = who THEN tx ELSE committed

\* What the other connections see after an execute() inside a transaction
\* that is still open: the committed database, until conn.commit().
Autocommit(committed, tx) == tx

Visible(committed, tx) == committed

\* f"https://www.amazon.com{href}"
FullUrl(href) == BaseUrl \o href

\* soup.select('div[role="group"] div[role="treeitem"] a'): the one selector
\* of the code; anchors that only another selector would match are not read.
SelectLinks(resp) == resp.primary

\* ------------------------------------------------------------ inputs
\* A complete listing entry of a Best Sellers grid, without the metadata
\* attribute, and its variants: one element missing, the badge malformed,
\* the metadata attribute present, every element missing.
Complete ==
  [ item_json |-> <<>>,
    title_el |-> <<"Echo Dot">>,
    rank_el |-> << <<"#", "1">> >>,
    price_el |-> <<"$49.99">>,
    rating_el |-> <<"4.5 out of 5 stars">>,
    reviews_el |-> <<"1,234">>,
    img_el |-> <<"https://img/1.jpg">> ]

Second == [Complete EXCEPT !.title_el = <<"Fire Stick">>,
                           !.rank_el = << <<"#", "1", "2">> >>]
NoTitle == [Complete EXCEPT !.title_el = <<>>]
NoRank == [Complete EXCEPT !.rank_el = <<>>]
NoPrice == [Complete EXCEPT !.price_el = <<>>]
NoRating == [Complete EXCEPT !.rating_el = <<>>]
NoReviews == [Complete EXCEPT !.reviews_el = <<>>]
NoImage == [Complete EXCEPT !.img_el = <<>>]
NoPriceRating == [Second EXCEPT !.price_el = <<>>, !.rating_el = <<>>]
Bare == [ item_json |-> <<>>, title_el |-> <<>>, rank_el |-> <<>>,
          price_el |-> <<>>, rating_el |-> <<>>, reviews_el |-> <<>>,
          img_el |-> <<>> ]
BadRank == [Complete EXCEPT !.rank_el = << <<"#", "1", ",", "2">> >>]
WithMeta == [Complete EXCEPT !.item_json = << [asin |-> "B0A"] >>]
WithMeta2 == [Second EXCEPT !.item_json = << [asin |-> "B0B"] >>]

Entries ==
  { Complete, Second, NoTitle, NoRank, NoPrice, NoRating, NoReviews, NoImage,
    NoPriceRating, Bare, BadRank, WithMeta, WithMeta2 }

SeqsUpTo(S, n) == UNION {[1..k -> S] : k \in 0..n}

Pages == SeqsUpTo(Entries, MaxEntries)
Limits == 0..MaxLimit
Times == 1..MaxTime
Url == "https://www.amazon.com/gp/bestsellers/electronics"

R503 == Resp(503, <<>>, FALSE)
R404 == Resp(404, <<>>, FALSE)
Challenge == Resp(200, <<>>, TRUE)
Transients == {R503, Challenge}
IsTransient(r) == ~r.raises /\ (r.status = 503 \/ r.challenge)

\* What the server answers to the successive requests of one fetch: one
\* final response, or up to MaxTransient transient failures and then a
\* success.
Scripts ==
  {<<Resp(200, p, FALSE)>> : p \in Pages}
  \cup {<<NetError>>, <<R404>>}
  \cup {pre \o <<Resp(200, <<Complete, NoPriceRating>>, FALSE)>> :
          pre \in (SeqsUpTo(Transients, MaxTransient) \ {<<>>})}

\* The requests of the system: pages of entries without and with metadata.
ApiEntries == {Complete, NoPriceRating, WithMeta, BadRank}
ApiResponses ==
  {NetError, R503}
  \cup {Resp(200, p, FALSE) : p \in SeqsUpTo(ApiEntries, MaxApiEntries)}

\* Sidebar anchors: href and stripped text.
Link(href, text) == [href |-> href, text |-> text]
Links ==
  { Link(<<"/books">>, "Books"), Link(<<"/toys">>, "Toys"),
    Link(<<"/books">>, "Kindle"), Link(<<>>, "Books"), Link(<<"/toys">>, "") }
FallbackPair == <<Link(<<"/music">>, "Music"), Link(<<"/games">>, "Games")>>

DiscPage(primary, fallback) ==
  [raises |-> FALSE, status |-> 200, primary |-> primary, fallback |-> fallback]
\* A 503 page: the function does not read the status, and parses the body.
Disc503 == [DiscPage(<<>>, <<>>) EXCEPT !.status = 503]
DiscResponses ==
  {NetError, Disc503}
  \cup {DiscPage(p, <<>>) : p \in SeqsUpTo(Links, MaxLinks)}
  \cup {DiscPage(<<>>, FallbackPair)}

\* ------------------------------------------------------------ state
VARIABLES
  fileExists,        \* os.path.exists(DB_NAME)
  freshStart,        \* history: the file was absent when the process started
  lpc,               \* position of lifespan()
  schedulerRunning,  \* scheduler.start() has run
  seedRuns,          \* history: calls of scrape_root_categories by lifespan
  db,                \* the committed tables
  lock,              \* holder of SQLite's write lock
  api,               \* the threads that run trigger_scrape
  disc,              \* the run of scrape_root_categories
  lastUp,            \* history: asin -> the last committed upsert of it
  serial,            \* history: the committed runs applied one after another
  xNet, xLimit, xpc, xOut, xAttempts   \* one call of scrape_amazon_category

sysVars == <<fileExists, freshStart, lpc, schedulerRunning, seedRuns, db, lock,
             api, disc, lastUp, serial>>
xVars == <<xNet, xLimit, xpc, xOut, xAttempts>>
vars == <<sysVars, xVars>>

Workers == {"w1", "w2"}
Asins == {NA, "B0A", "B0B"}

NoRet == [status |-> "none"]
IdleApi == [pc |-> "idle", items |-> <<>>, i |-> 1, tx |-> EmptyDb, ret |-> NoRet]
IdleDisc ==
  [ pc |-> "idle", caller |-> "none", links |-> <<>>, i |-> 1,
    categories |-> <<>>, rows |-> <<>>, tx |-> EmptyDb, ret |-> <<>>,
    failed |-> FALSE, before |-> {}, resp |-> NetError ]

\* What an earlier process of this program may have left in the file.
PriorDbs ==
  { EmptyDb,
    [ products |-> {ProductData(Bare, Url, 1)},
      categories |-> {[url |-> FullUrl("/books"), name |-> "Books", updated_at |-> 1]} ] }

SysInit ==
  /\ fileExists \in BOOLEAN
  /\ freshStart = ~fileExists
  /\ lpc = "init_db"
  /\ schedulerRunning = FALSE
  /\ seedRuns = 0
  /\ db \in (IF fileExists THEN PriorDbs ELSE {EmptyDb})
  /\ lock = "none"
  /\ api = [w \in Workers |-> IdleApi]
  /\ disc = IdleDisc
  /\ lastUp = [a \in Asins |-> IF \E r \in db.products : r.asin = a
                                THEN CHOOSE r \in db.products : r.asin = a
                                ELSE Skip]
  /\ serial = db

XIdle ==
  /\ xNet = <<>> /\ xLimit = 0 /\ xpc = "off" /\ xOut = <<>> /\ xAttempts = 0

Init == SysInit /\ XIdle

\* ------------------------------------------------------------ lifespan
\* init_db(): sqlite3.connect creates the file; CREATE TABLE IF NOT EXISTS
\* keeps the rows of existing tables.
InitDb ==
  /\ lpc = "init_db"
  /\ fileExists' = TRUE
  /\ lpc' = "add_job"
  /\ UNCHANGED <<freshStart, schedulerRunning, seedRuns, db, lock, api, disc,
                 lastUp, serial, xVars>>

\* scheduler.add_job(scrape_root_categories, 'interval', hours=24);
\* scheduler.start()
StartScheduler ==
  /\ lpc = "add_job"
  /\ schedulerRunning' = TRUE
  /\ lpc' = "seed_check"
  /\ UNCHANGED <<fileExists, freshStart, seedRuns, db, lock, api, disc,
                 lastUp, serial, xVars>>

\* scrape_root_categories() up to the loop: the request, the parse, the
\* selector, sqlite3.connect.  requests.get raising is caught by the
\* function's except clause, which returns [].
DiscBegin(caller, Rs) ==
  \E resp \in Rs :
    disc' = IF resp.raises
            THEN [IdleDisc EXCEPT !.pc = "done", !.caller = caller,
                                  !.failed = TRUE, !.before = db.categories,
                                  !.resp = resp]
            ELSE [IdleDisc EXCEPT !.pc = "loop", !.caller = caller,
                                  !.links = SelectLinks(resp),
                                  !.before = db.categories, !.resp = resp]

\* if not os.path.exists(DB_NAME): scrape_root_categories()
SeedCheck(Rs) ==
  /\ lpc = "seed_check"
  /\ IF ~fileExists
     THEN /\ lpc' = "seeding"
          /\ seedRuns' = seedRuns + 1
          /\ DiscBegin("seed", Rs)
     ELSE /\ lpc' = "serving"
          /\ UNCHANGED <<seedRuns, disc>>
  /\ UNCHANGED <<fileExists, freshStart, schedulerRunning, db, lock, api,
                 lastUp, serial, xVars>>

\* The interval job: the event loop runs it only once lifespan has yielded,
\* and the scheduler starts no second instance while one runs.
TimerFire(Rs) ==
  /\ lpc = "serving"
  /\ schedulerRunning
  /\ disc.pc = "idle"
  /\ DiscBegin("timer", Rs)
  /\ UNCHANGED <<fileExists, freshStart, lpc, schedulerRunning, seedRuns, db,
                 lock, api, lastUp, serial, xVars>>

\* ------------------------------------------------------------ discovery
\* if href and name
ValidLink(link) == Truthy(link.href) /\ link.text # ""

RECURSIVE ApplyCategories(_, _)
ApplyCategories(table, rows) ==
  IF rows = <<>> THEN table
  ELSE ApplyCategories(UpsertCategory(table, Head(rows)), Tail(rows))

RECURSIVE ApplyProducts(_, _)
ApplyProducts(table, rows) ==
  IF rows = <<>> THEN table
  ELSE ApplyProducts(UpsertProduct(table, Head(rows)), Tail(rows))

Release(who) == IF lock = who THEN "none" ELSE lock

\* One iteration of the loop over cat_links.  The first execute() opens the
\* connection's transaction and takes the write lock.
DiscIter(Ts) ==
  /\ disc.pc = "loop"
  /\ disc.i <= Len(disc.links)
  /\ LET link == disc.links[disc.i] IN
       IF ValidLink(link)
       THEN /\ CanWrite(lock, "disc")
            /\ \E now \in Ts :
                 LET row == [ url |-> FullUrl(link.href[1]), name |-> link.text,
                              updated_at |-> now ]
                     view == View(lock, "disc", db, disc.tx)
                     tx == [view EXCEPT !.categories = UpsertCategory(@, row)]
                 IN /\ disc' = [disc EXCEPT
                          !.tx = tx,
                          !.rows = Append(@, row),
                          !.categories = Append(@, [name |-> row.name, url |-> row.url]),
                          !.i = @ + 1]
                    /\ db' = Visible(db, tx)
            /\ lock' = "disc"
       ELSE /\ disc' = [disc EXCEPT !.i = @ + 1]
            /\ UNCHANGED <<lock, db>>
  /\ UNCHANGED <<fileExists, freshStart, lpc, schedulerRunning, seedRuns,
                 api, lastUp, serial, xVars>>

\* c.execute raises (sqlite3.Error): the except clause returns [], and the
\* connection, never committed, is dropped with its transaction.
DiscExecFail ==
  /\ disc.pc = "loop"
  /\ disc.i <= Len(disc.links)
  /\ ValidLink(disc.links[disc.i])
  /\ disc' = [disc EXCEPT !.pc = "done", !.failed = TRUE, !.ret = <<>>,
                          !.tx = EmptyDb]
  /\ lock' = Release("disc")
  /\ UNCHANGED <<fileExists, freshStart, lpc, schedulerRunning, seedRuns, db,
                 api, lastUp, serial, xVars>>

\* conn.commit(); conn.close(); return categories
DiscCommit ==
  /\ disc.pc = "loop"
  /\ disc.i > Len(disc.links)
  /\ db' = View(lock, "disc", db, disc.tx)
  /\ lock' = Release("disc")
  /\ serial' = [serial EXCEPT !.categories = ApplyCategories(@, disc.rows)]
  /\ disc' = [disc EXCEPT !.pc = "done", !.ret = disc.categories, !.tx = EmptyDb]
  /\ UNCHANGED <<fileExists, freshStart, lpc, schedulerRunning, seedRuns, api,
                 lastUp, xVars>>

\* The function returns to its caller: lifespan (which goes on to yield) or
\* the scheduler.
DiscReturn ==
  /\ disc.pc = "done"
  /\ disc' = IdleDisc
  /\ lpc' = IF disc.caller = "seed" THEN "serving" ELSE lpc
  /\ UNCHANGED <<fileExists, freshStart, schedulerRunning, seedRuns, db, lock,
                 api, lastUp, serial, xVars>>

\* ------------------------------------------------------------ trigger_scrape
\* if not items
NotItemsShort(items) == Len(items) <= 1

NotItems(items) == items = <<>>

ErrorRet ==
  [status |-> "error", message |-> "Failed to scrape or blocked by Amazon",
   data |-> <<>>]

\* items = scrape_amazon_category(url); if not items: return {...error...}
ApiScrape(w, Rs, Ts) ==
  /\ lpc = "serving"
  /\ api[w].pc = "idle"
  /\ \E resp \in Rs, now \in Ts :
       LET items == ScrapeCategory(resp, Url, DefaultLimit, now) IN
         api' = [api EXCEPT ![w] =
                   IF NotItems(items)
                   THEN [IdleApi EXCEPT !.pc = "done", !.items = items,
                                        !.ret = ErrorRet]
                   ELSE [IdleApi EXCEPT !.pc = "upsert", !.items = items]]
  /\ UNCHANGED <<fileExists, freshStart, lpc, schedulerRunning, seedRuns, db,
                 lock, disc, lastUp, serial, xVars>>

\* One iteration of the loop over items: INSERT OR REPLACE INTO products.
ApiExecute(w) ==
  /\ api[w].pc = "upsert"
  /\ api[w].i <= Len(api[w].items)
  /\ CanWrite(lock, w)
  /\ LET view == View(lock, w, db, api[w].tx)
         tx == [view EXCEPT
                  !.products = UpsertProduct(@, api[w].items[api[w].i])]
     IN /\ api' = [api EXCEPT ![w].tx = tx, ![w].i = @ + 1]
        /\ db' = Visible(db, tx)
  /\ lock' = w
  /\ UNCHANGED <<fileExists, freshStart, lpc, schedulerRunning, seedRuns,
                 disc, lastUp, serial, xVars>>

\* c.execute raises (sqlite3.Error): nothing catches it, the request ends
\* with HTTP 500 and the connection is dropped with its transaction.
ApiExecFail(w) ==
  /\ api[w].pc = "upsert"
  /\ api[w].i <= Len(api[w].items)
  /\ api' = [api EXCEPT ![w].pc = "raised", ![w].tx = EmptyDb]
  /\ lock' = Release(w)
  /\ UNCHANGED <<fileExists, freshStart, lpc, schedulerRunning, seedRuns, db,
                 disc, lastUp, serial, xVars>>

LastIndex(items, a) ==
  CHOOSE i \in 1..Len(items) :
    items[i].asin = a /\ \A j \in (i + 1)..Len(items) : items[j].asin # a

\* conn.commit(); conn.close(); return {"status": "success", ...}
ApiCommit(w) ==
  /\ api[w].pc = "upsert"
  /\ api[w].i > Len(api[w].items)
  /\ db' = View(lock, w, db, api[w].tx)
  /\ lock' = Release(w)
  /\ lastUp' = [a \in Asins |->
                  IF \E i \in 1..Len(api[w].items) : api[w].items[i].asin = a
                  THEN api[w].items[LastIndex(api[w].items, a)]
                  ELSE lastUp[a]]
  /\ serial' = [serial EXCEPT !.products = ApplyProducts(@, api[w].items)]
  /\ api' = [api EXCEPT ![w].pc = "done", ![w].tx = EmptyDb,
                        ![w].ret = [ status |-> "success",
                                     count |-> Len(api[w].items),
                                     data |-> api[w].items ]]
  /\ UNCHANGED <<fileExists, freshStart, lpc, schedulerRunning, seedRuns, disc,
                 xVars>>

\* The response is sent; the thread takes the next request.
ApiReturn(w) ==
  /\ api[w].pc \in {"done", "raised"}
  /\ api' = [api EXCEPT ![w] = IdleApi]
  /\ UNCHANGED <<fileExists, freshStart, lpc, schedulerRunning, seedRuns, db,
                 lock, disc, lastUp, serial, xVars>>

\* The requests and pages of the specification that runs two API threads
\* and discovery together.
ConcTimes == {1, 2}
ConcDiscTimes == {1}
ConcApiResponses ==
  { R503, Resp(200, <<Complete>>, FALSE),
    Resp(200, <<NoPriceRating, Second>>, FALSE) }
ConcDiscResponses ==
  { NetError,
    DiscPage(<<Link(<<"/toys">>, "Toys")>>, <<>>),
    DiscPage(<<Link(<<"/books">>, "Kindle"), Link(<<"/toys">>, "Games")>>, <<>>) }

Lifespan(Rs) == InitDb \/ StartScheduler \/ SeedCheck(Rs)

Discovery(Rs, Ts) ==
  \/ TimerFire(Rs)
  \/ DiscIter(Ts)
  \/ DiscExecFail
  \/ DiscCommit
  \/ DiscReturn

Api(Ws, Rs, Ts) ==
  \/ \E w \in Ws : ApiScrape(w, Rs, Ts)
  \/ \E w \in Ws : ApiExecute(w)
  \/ \E w \in Ws : ApiExecFail(w)
  \/ \E w \in Ws : ApiCommit(w)
  \/ \E w \in Ws : ApiReturn(w)

\* The whole process: startup, the scheduled discovery and two API threads.
Next ==
  \/ Lifespan(ConcDiscResponses)
  \/ Discovery(ConcDiscResponses, ConcDiscTimes)
  \/ Api(Workers, ConcApiResponses, ConcTimes)

Spec == Init /\ [][Next]_vars

\* Startup and one API thread serving request after request, no timer firing.
ApiNext ==
  \/ Lifespan(DiscResponses)
  \/ Api({"w1"}, ApiResponses, Times)

ApiSpec == Init /\ [][ApiNext]_vars

\* Startup and discovery, no API request.
DiscNext ==
  \/ Lifespan(DiscResponses)
  \/ Discovery(DiscResponses, Times)

DiscSpec == Init /\ [][DiscNext]_vars

\* ------------------------------------------------------------ one scrape
\* A call scrape_amazon_category(Url, xLimit) against a server that answers
\* the k-th request of the call with xNet[k].
XInit ==
  /\ SysInit
  /\ ~fileExists
  /\ xNet \in Scripts
  /\ xLimit \in Limits
  /\ xpc = "call"
  /\ xOut = <<>>
  /\ xAttempts = 0

\* The whole call: one requests.get, the status check, the loop over
\* items[:limit], the return.
XScrape ==
  /\ xpc = "call"
  /\ \E now \in Times :
       xOut' = ScrapeCategory(xNet[xAttempts + 1], Url, xLimit, now)
  /\ xAttempts' = xAttempts + 1
  /\ xpc' = "done"
  /\ UNCHANGED <<xNet, xLimit, sysVars>>

XNext == XScrape

XSpec == XInit /\ [][XNext]_vars

\* ------------------------------------------------------------ properties
UniqueKeys ==
  /\ \A r1, r2 \in db.products : r1.asin = r2.asin => r1 = r2
  /\ \A r1, r2 \in db.categories : r1.url = r2.url => r1 = r2

\* C1 (ApiSpec): after any sequence of trigger_scrape requests the products
\* table holds exactly one row per product identifier that was upserted, and
\* that row equals, field by field, the most recent upsert of the
\* identifier.
C1_OneRowLastWrite ==
  /\ \A r1, r2 \in db.products : r1.asin = r2.asin => r1 = r2
  /\ \A a \in Asins : lastUp[a] # Skip => lastUp[a] \in db.products
  /\ \A r \in db.products : lastUp[r.asin] = r

\* A request has upserted one identifier twice, with different values, over
\* the row an earlier process left: the table holds the second record only.
C1_Witness ==
  LET t == api["w1"] IN
    /\ t.pc = "done" /\ t.ret.status = "success"
    /\ Len(t.items) = 2
    /\ t.items[1].asin = t.items[2].asin
    /\ t.items[1] # t.items[2]
    /\ ~freshStart
    /\ db.products = {t.items[2]}

\* The first response of the call is a page (status 200, no challenge).
XPage == ~xNet[1].raises /\ xNet[1].status = 200 /\ ~xNet[1].challenge
\* The entries the loop runs over: items[:limit].
XKept == SubSeq(xNet[1].items, 1, Min(xLimit, Len(xNet[1].items)))

\* C2 (XSpec), as the specification states it: a fetch that is served three transient
\* failures (503 or a challenge page) and then a success makes 4 attempts
\* and returns what the successful response holds.
C2_RetriesThenSuccess ==
  ( /\ xpc = "done"
    /\ Len(xNet) = 4
    /\ \A k \in 1..3 : IsTransient(xNet[k])
    /\ ~xNet[4].raises /\ xNet[4].status = 200 /\ ~xNet[4].challenge )
  => /\ xAttempts = 4
     /\ \E now \in Times : xOut = ScrapeCategory(xNet[4], Url, xLimit, now)

\* The documented default of each field of a record made from entry e.
FieldDefaults(e, r) ==
  /\ e.title_el = <<>> => r.title = "Unknown Title"
  /\ (e.rank_el = <<>> \/ ~IsIntLiteral(ReplaceHash(e.rank_el[1]))) => r.rank = 0
  /\ e.price_el = <<>> => r.price \in {"", None}
  /\ e.rating_el = <<>> => r.rating = "N/A"
  /\ e.reviews_el = <<>> => r.reviews_count = "0"
  /\ e.img_el = <<>> => r.image_url = ""

\* C3 (XSpec), as the specification states it, for pages whose entries carry no metadata
\* attribute: every entry the loop runs over yields a record, and a field
\* that is missing or malformed holds its default in it (None is taken as
\* the sentinel of the price).
C3_DefaultsNeverSkip ==
  ( /\ xpc = "done" /\ XPage
    /\ \A i \in 1..Len(XKept) : ~HasMeta(XKept[i]) )
  => /\ Len(xOut) = Len(XKept)
     /\ \A i \in 1..Len(XKept) : FieldDefaults(XKept[i], xOut[i])

\* C4 (XSpec), as the specification states it, for pages whose rank badges are well
\* formed: a page of k entries yields min(k, limit) records in page order;
\* the record of an entry that carries the metadata attribute has the asin
\* of the attribute, the record of an entry without it has "N/A".
C4_OneRecordPerEntry ==
  ( /\ xpc = "done" /\ XPage
    /\ \A i \in 1..Len(XKept) : ~ItemRaises([XKept[i] EXCEPT !.item_json = <<>>]) )
  => /\ Len(xOut) = Min(Len(xNet[1].items), xLimit)
     /\ \A i \in 1..Len(XKept) :
          /\ xOut[i].asin = IF XKept[i].item_json # <<>>
                            THEN XKept[i].item_json[1].asin ELSE "N/A"
          /\ xOut[i].title = TextOr(XKept[i].title_el, "Unknown Title")

\* C5 (XSpec): scrape_amazon_category(url, limit = N) returns at most N
\* records, for every N >= 0, every response and every page, whichever
\* entries are skipped.
C5_AtMostLimit == xpc = "done" => Len(xOut) <= xLimit

\* A page with more entries than the limit, none of them skipped: exactly
\* limit records come back.
C5_Witness ==
  /\ xpc = "done" /\ XPage
  /\ xLimit > 0
  /\ Len(xNet[1].items) > xLimit
  /\ Len(xOut) = xLimit

\* What holds of a request that has returned.
C6_Returned ==
  \A w \in Workers :
    api[w].pc = "done" =>
      LET t == api[w] IN
        /\ t.ret.status \in {"error", "success"}
        /\ (t.ret.status = "error") <=> (t.items = <<>>)
        /\ t.ret.status = "error" => t.ret.data = <<>>
        /\ t.ret.status = "success" =>
             /\ t.ret.count = Len(t.ret.data)
             /\ t.ret.data = t.items
             /\ \A i \in 1..Len(t.items) :
                  \E r \in db.products :
                    /\ r.asin = t.items[i].asin
                    /\ \E j \in i..Len(t.items) :
                         /\ r = t.items[j]
                         /\ \A k \in (j + 1)..Len(t.items) :
                              t.items[k].asin # r.asin

C6_ErrorStep ==
  \A w \in Workers :
    (api[w].pc # "done" /\ api'[w].pc = "done" /\ api'[w].ret.status = "error")
      => (api[w].pc = "idle" /\ db' = db /\ lock' = lock)

\* C6 (ApiSpec): whenever trigger_scrape returns, its status is "error"
\* exactly when the scrape yielded no record; an error is returned straight
\* from the test "if not items", by a step that leaves the database as it was; a success
\* carries count = len(data), data are the scraped records, and each of them
\* has been upserted (the table holds, for each asin of data, the last
\* record of data with that asin).
C6_ErrorIffNoRecords == [](C6_Returned) /\ [][C6_ErrorStep]_vars

\* A request has returned "error" while the table holds a row.
C6_Witness ==
  /\ api["w1"].pc = "done"
  /\ api["w1"].ret.status = "error"
  /\ db.products # {}

\* The {name, url} entries of the candidates with an href and a text.
RECURSIVE CategoriesOf(_)
CategoriesOf(links) ==
  IF links = <<>> THEN <<>>
  ELSE (IF Head(links).href # <<>> /\ Head(links).href[1] # "" /\ Head(links).text # ""
        THEN <<[name |-> Head(links).text, url |-> BaseUrl \o Head(links).href[1]]>>
        ELSE <<>>) \o CategoriesOf(Tail(links))

\* C7 (DiscSpec), as the specification states it: a discovery run on a page where the
\* primary selector matches nothing and the fallback selector matches two
\* links returns exactly those two categories, and they are in the table.
C7_FallbackSelector ==
  ( /\ disc.pc = "done" /\ ~disc.failed
    /\ disc.resp.primary = <<>>
    /\ Len(disc.resp.fallback) = 2 )
  => /\ disc.ret = CategoriesOf(disc.resp.fallback)
     /\ \A i \in 1..2 :
          \E r \in db.categories : r.url = CategoriesOf(disc.resp.fallback)[i].url

\* What holds of a discovery run that has ended.
C8_RunEnded ==
  disc.pc = "done" =>
    IF disc.failed
    THEN /\ disc.ret = <<>>
         /\ db.categories = disc.before
         /\ lock # "disc"
         /\ disc.resp.raises \/ disc.i <= Len(disc.links)
    ELSE /\ disc.ret = CategoriesOf(disc.resp.primary)
         /\ \A i \in 1..Len(disc.ret) :
              \E r \in db.categories :
                /\ r.url = disc.ret[i].url
                /\ \E j \in i..Len(disc.ret) :
                     /\ disc.ret[j].url = r.url
                     /\ disc.ret[j].name = r.name
                     /\ \A k \in (j + 1)..Len(disc.ret) : disc.ret[k].url # r.url
         /\ \A r \in db.categories :
              r \in disc.before \/ \E i \in 1..Len(disc.ret) : disc.ret[i].url = r.url

C8_CommitStep ==
  db'.categories # db.categories =>
    (disc.pc = "loop" /\ disc'.pc = "done" /\ ~disc'.failed)

\* C8 (DiscSpec): the categories table changes only in the commit step of a
\* run, which publishes all upserts of the run at once.  A run that has hit
\* a fatal error returns [], has left the failing candidate and those after
\* it unprocessed, and has left the table as it was before the run.  A run
\* that has completed returns the candidates that have an href and a text,
\* in order, and each of them has a row keyed by its absolute URL (the
\* site's origin followed by the href, a site-relative path) whose name is
\* that of the last such candidate with the href.
C8_CommitAsUnit == [](C8_RunEnded) /\ [][C8_CommitStep]_vars

\* A run has failed after one of its upserts was executed: the table is the
\* one from before the run, which lacks that row.
C8_Witness ==
  /\ disc.pc = "done" /\ disc.failed
  /\ Len(disc.rows) >= 1
  /\ disc.rows[1] \notin db.categories
  /\ db.categories = disc.before

\* A step of an API thread, a step of discovery.
C9_Steps ==
  /\ api' # api => db'.categories = db.categories
  /\ disc' # disc => db'.products = db.products

\* C9 (Spec): under every interleaving of two trigger_scrape threads and the
\* discovery run, the committed tables hold at most one row per asin and
\* per url, a step of an API thread leaves the categories table alone, a
\* step of discovery leaves the products table alone, and the committed
\* database is the one that the committed runs produce when each is run
\* alone, one after the other, in the order of their commits.
C9_Serializable == [](UniqueKeys /\ db = serial) /\ [][C9_Steps]_vars

\* Two requests that wrote different records of one asin and a discovery
\* run that wrote a row are in flight together, all three committed.
C9_Witness ==
  /\ api["w1"].pc = "done" /\ api["w1"].ret.status = "success"
  /\ api["w2"].pc = "done" /\ api["w2"].ret.status = "success"
  /\ api["w1"].items # api["w2"].items
  /\ api["w1"].items[1].asin = api["w2"].items[1].asin
  /\ disc.pc = "done" /\ ~disc.failed /\ Len(disc.rows) = 2
  /\ db.products # {} /\ db.categories # {}

\* C10 (DiscSpec), as the specification states it: when the application begins to
\* serve, lifespan has called scrape_root_categories once if the database
\* file was absent at startup, and not at all if it was there.
C10_SeedOnFreshStart ==
  lpc = "serving" =>
    /\ freshStart => seedRuns = 1
    /\ ~freshStart => seedRuns = 0

====
